---- MODULE Spec2Model ----
(***************************************************************************)
(* A state-machine model of streamlit_app.py (RTT Trajectories): one       *)
(* render of main(), i.e. load_data, visualize_data (filter_dataframe and  *)
(* the groupby aggregation) and set_trajectories.  Widgets are the inputs: *)
(* every widget value is drawn with \E from a small set.                   *)
(***************************************************************************)
EXTENDS Integers, Sequences, FiniteSets, TLC

VARIABLES
    pc,                 \* position of the render inside main()
    uploaded_file,      \* the CSV in the file uploader, or None
    data,               \* main's `data` (load_data's return value)
    warnings,           \* messages passed to st.warning, in order
    calls,              \* functions main has entered, in order, with their argument
    modify,             \* the "Add filters" checkbox
    df,                 \* filter_dataframe's local df
    to_filter_columns,  \* columns of the multiselect not yet looped over
    applied,            \* <<column, branch, widget value>> of every loop pass so far
    slider,             \* <<_min, _max, step * SliderSteps>> of every slider created
    filtered_data,      \* visualize_data's filtered_data
    selected_metric,    \* the "Select Metric" select box
    fig,                \* the figure handed to st.plotly_chart
    tf_options,         \* options of the TF Name select box
    selected_tf,        \* the TF Name select box
    trajectory_df,      \* set_trajectories' trajectory_df
    csv                 \* the text handed to st.download_button, as lines

vars == <<pc, uploaded_file, data, warnings, calls, modify, df, to_filter_columns,
          applied, slider, filtered_data, selected_metric, fig, tf_options,
          selected_tf, trajectory_df, csv>>

(***************************************************************************)
(* Bounds of the model.                                                    *)
(***************************************************************************)
MaxRows == 2          \* rows of a small uploaded table
Extra == 1            \* rows of a large table beyond the cardinality threshold
TicksPerDay == 2      \* resolution of a timestamp's time of day
MaxDeselect == 1      \* leading multiselect options the user may deselect
MaxTrajectory == 1    \* largest value typed into a month's number input

(***************************************************************************)
(* Program constants.                                                      *)
(***************************************************************************)
Threshold == 100      \* df[column].nunique() < 100
SliderSteps == 100    \* step = (_max - _min) / 100
StartYear == 2025     \* start_month = "April 2025"
StartMonth == 4
EndYear == 2026       \* end_month = "March 2026"
EndMonth == 3

NoDate == -1

\* Python's None, for a file and for a table.
NoFile == [isNone |-> TRUE, columns |-> <<>>, rows |-> <<>>]
None == [isNone |-> TRUE, columns |-> <<>>, dtype |-> [c \in {} |-> ""], rows |-> <<>>]

(***************************************************************************)
(* Cells.  A CSV field is missing (NaN / NaT), a number, or a text; a text *)
(* carries in n the timestamp pd.to_datetime reads from it, NoDate when    *)
(* the parser rejects it.  A datetime64 cell is made only by the           *)
(* conversion in filter_dataframe.                                         *)
(***************************************************************************)
Missing == [k |-> "nan", s |-> "", n |-> 0]
Num(x) == [k |-> "num", s |-> "", n |-> x]
Text(str, t) == [k |-> "txt", s |-> str, n |-> t]
Date(t) == [k |-> "date", s |-> "", n |-> t]

IsMissing(c) == c.k = "nan"

Columns == <<"Month", "TF Name", "Type", "Pathways">>

Range(seq) == {seq[i] : i \in 1..Len(seq)}

\* df[col] as the sequence of its cells, in row order.
Column(t, col) == [i \in 1..Len(t.rows) |-> t.rows[i].c[col]]

\* pd.read_csv's dtype inference for one column: text makes it object, and so
\* does a file without rows; otherwise the column is numeric (float64 when
\* all its cells are empty).
InferDtype(cells) ==
    IF cells = <<>> \/ \E i \in 1..Len(cells) : cells[i].k = "txt"
    THEN "object" ELSE "number"

\* pd.read_csv: rows indexed 0..n-1 (RangeIndex), each column with its dtype.
ReadCsv(file) ==
    [isNone |-> FALSE,
     columns |-> file.columns,
     dtype |-> [col \in Range(file.columns) |-> InferDtype([i \in 1..Len(file.rows) |-> file.rows[i][col]])],
     rows |-> [i \in 1..Len(file.rows) |-> [idx |-> i - 1, c |-> file.rows[i]]]]

\* Mutant of Replace: Series.str.replace, which rewrites the text inside a
\* longer value too.
ReplaceSubstring(cell) ==
    IF cell.k = "txt" /\ \E i \in 1..(Len(cell.s) - 10) : SubSeq(cell.s, i, i + 10) = "Clock Stops"
    THEN LET i == CHOOSE i \in 1..(Len(cell.s) - 10) : SubSeq(cell.s, i, i + 10) = "Clock Stops"
         IN [cell EXCEPT !.s = SubSeq(cell.s, 1, i - 1) \o "Non-Admitted Clock Stops"
                                  \o SubSeq(cell.s, i + 11, Len(cell.s))]
    ELSE cell

\* Series.replace({'Clock Stops': 'Non-Admitted Clock Stops'}): whole-value match.
Replace(cell) ==
    IF cell.k = "txt" /\ cell.s = "Clock Stops"
    THEN [cell EXCEPT !.s = "Non-Admitted Clock Stops"]
    ELSE cell

RenameType(t) ==
    [t EXCEPT !.rows = [i \in 1..Len(t.rows) |->
        [t.rows[i] EXCEPT !.c["Type"] = Replace(@)]]]


(***************************************************************************)
(* filter_dataframe: the pure parts.                                       *)
(***************************************************************************)
Min(S) == CHOOSE x \in S : \A y \in S : x <= y
Max(S) == CHOOSE x \in S : \A y \in S : x >= y

\* Mutant of BoolIndex: the mask is read at a row's index label instead of
\* its position.
BoolIndexByLabel(t, mask) ==
    LET kept == SelectSeq([i \in 1..Len(t.rows) |-> i],
                          LAMBDA i : t.rows[i].idx + 1 \in DOMAIN mask /\ mask[t.rows[i].idx + 1])
    IN [t EXCEPT !.rows = [j \in 1..Len(kept) |-> t.rows[kept[j]]]]

\* df[mask]: the rows whose mask entry is True, in order, index labels kept.
BoolIndex(t, mask) ==
    LET kept == SelectSeq([i \in 1..Len(t.rows) |-> i], LAMBDA i : mask[i])
    IN [t EXCEPT !.rows = [j \in 1..Len(kept) |-> t.rows[kept[j]]]]

\* pd.to_datetime(df[col]) raises unless every text of the column is a date.
ToDatetimeRaises(cells) ==
    \E i \in 1..Len(cells) : cells[i].k = "txt" /\ cells[i].n = NoDate

\* One cell of pd.to_datetime(df[col]).dt.tz_localize(None): NaN becomes NaT.
ToDatetime(cell) == IF cell.k = "txt" THEN Date(cell.n) ELSE cell

\* Mutant of ConvertDatetimes: pd.to_datetime(errors="coerce"), which turns
\* every text column into timestamps and what is no date into NaT.
ConvertDatetimesCoerce(t) ==
    LET conv == {col \in Range(t.columns) : t.dtype[col] = "object"}
    IN [t EXCEPT
          !.dtype = [col \in DOMAIN t.dtype |->
                        IF col \in conv THEN "datetime" ELSE t.dtype[col]],
          !.rows = [i \in 1..Len(t.rows) |->
                        [t.rows[i] EXCEPT !.c = [col \in DOMAIN t.rows[i].c |->
                            LET cell == t.rows[i].c[col] IN
                            IF col \in conv /\ cell.k = "txt"
                            THEN (IF cell.n = NoDate THEN Missing ELSE Date(cell.n))
                            ELSE cell]]]]

\* The conversion loop over df.columns (each column is handled on its own).
ConvertDatetimes(t) ==
    LET conv == {col \in Range(t.columns) :
                    t.dtype[col] = "object" /\ ~ToDatetimeRaises(Column(t, col))}
    IN [t EXCEPT
          !.dtype = [col \in DOMAIN t.dtype |->
                        IF col \in conv THEN "datetime" ELSE t.dtype[col]],
          !.rows = [i \in 1..Len(t.rows) |->
                        [t.rows[i] EXCEPT !.c = [col \in DOMAIN t.rows[i].c |->
                            IF col \in conv THEN ToDatetime(t.rows[i].c[col])
                            ELSE t.rows[i].c[col]]]]]

\* Series.nunique(): distinct values, NaN / NaT not counted.
NUnique(cells) == Cardinality({cells[i] : i \in 1..Len(cells)} \ {Missing})

\* Series.unique(): distinct values in order of first appearance, NaN included.
Unique(cells) ==
    LET first == SelectSeq([i \in 1..Len(cells) |-> i],
                           LAMBDA i : \A j \in 1..(i - 1) : cells[j] # cells[i])
    IN [j \in 1..Len(first) |-> cells[first[j]]]

\* Mutant of Dispatch: the threshold of the comment above the test,
\* "columns with < 10 unique values".
DispatchTen(t, col) ==
    IF t.dtype[col] = "category" \/ NUnique(Column(t, col)) < 10 THEN "categorical"
    ELSE IF t.dtype[col] = "number" THEN "numeric"
    ELSE IF t.dtype[col] = "datetime" THEN "date"
    ELSE "text"

\* Mutant of Dispatch: the numeric test ahead of the cardinality test.
DispatchNumericFirst(t, col) ==
    IF t.dtype[col] = "number" THEN "numeric"
    ELSE IF t.dtype[col] = "category" \/ NUnique(Column(t, col)) < Threshold
    THEN "categorical"
    ELSE IF t.dtype[col] = "datetime" THEN "date"
    ELSE "text"

\* The branch of the if / elif chain a column takes.
Dispatch(t, col) ==
    IF t.dtype[col] = "category" \/ NUnique(Column(t, col)) < Threshold THEN "categorical"
    ELSE IF t.dtype[col] = "number" THEN "numeric"
    ELSE IF t.dtype[col] = "datetime" THEN "date"
    ELSE "text"

\* Series.astype(str) of one cell: NaN prints as "nan".
AsStr(cell) ==
    CASE cell.k = "nan" -> "nan"
      [] cell.k = "txt" -> cell.s
      [] OTHER -> ToString(cell.n)

\* re.search of a pattern without metacharacters: a substring test.
Contains(str, pat) ==
    \E i \in 1..(Len(str) - Len(pat) + 1) : SubSeq(str, i, i + Len(pat) - 1) = pat

\* Series.isin(values): NaN matches NaN.
IsIn(cell, values) == cell \in values

\* Mutant of NumBetween: between(..., inclusive="neither").
NumBetweenExclusive(cell, lo, hi) ==
    cell.k = "num" /\ lo < SliderSteps * cell.n /\ SliderSteps * cell.n < hi

\* Series.between(lo, hi) on a numeric column, inclusive on both sides; lo and
\* hi are slider values, held multiplied by SliderSteps (they are multiples
\* of step = (_max - _min) / SliderSteps).  NaN compares False.
NumBetween(cell, lo, hi) ==
    cell.k = "num" /\ lo <= SliderSteps * cell.n /\ SliderSteps * cell.n <= hi

\* Series.between(start_date, end_date) on a datetime column; NaT compares False.
DateBetween(cell, start_date, end_date) ==
    cell.k = "date" /\ start_date <= cell.n /\ cell.n <= end_date

\* datetime.date of a timestamp (st.date_input keeps the date of its value)
\* and pd.to_datetime of a date (midnight).
DateOf(t) == t \div TicksPerDay
Midnight(d) == d * TicksPerDay

\* A constraint is what one pass of the loop applies to df: the column, the
\* branch taken and the widget's value.  active is FALSE when the branch
\* leaves df alone.  The record also keeps what the pass saw: the column's
\* dtype and nunique(), and whether the widget was left at its default.
NoConstraint(t, col) ==
    [column |-> col, branch |-> Dispatch(t, col), active |-> FALSE,
     values |-> {}, lo |-> 0, hi |-> 0, text |-> "",
     dtype |-> t.dtype[col], nunique |-> NUnique(Column(t, col)), default |-> TRUE]

Mask(t, con) ==
    [i \in 1..Len(t.rows) |->
        LET cell == t.rows[i].c[con.column] IN
        CASE con.branch = "categorical" -> IsIn(cell, con.values)
          [] con.branch = "numeric" -> NumBetween(cell, con.lo, con.hi)
          [] con.branch = "date" -> DateBetween(cell, con.lo, con.hi)
          [] OTHER -> Contains(AsStr(cell), con.text)]

\* df = df[...] of the branch, or df left alone when the widget gives no constraint.
ApplyConstraint(t, con) == IF con.active THEN BoolIndex(t, Mask(t, con)) ELSE t

(***************************************************************************)
(* filter_dataframe: the widget values a user can hand back.               *)
(***************************************************************************)
\* st.multiselect("Filter dataframe on", df.columns): columns in the order
\* the user picked them; here none, one, or two different ones.
Selections(columns) ==
    {<<>>} \cup {<<a>> : a \in Range(columns)}
           \cup {p \in {<<a, b>> : a \in Range(columns), b \in Range(columns)} :
                    p[1] # p[2]}

\* right.multiselect(options, default = all of them): the user deselects any
\* of the first MaxDeselect options.
CatChoices(options) ==
    LET k == IF Len(options) < MaxDeselect THEN Len(options) ELSE MaxDeselect
    IN {Range(options) \ D : D \in SUBSET Range(SubSeq(options, 1, k))}

\* right.slider(value = (_min, _max), step): both handles on multiples of
\* step; here at the ends or in the middle.
SliderChoices ==
    {<<a, b>> \in {0, SliderSteps \div 2, SliderSteps} \X
                  {0, SliderSteps \div 2, SliderSteps} : a <= b}

\* right.date_input(value = (min, max)): one date while the user is still
\* picking, else two; the default, or a range one day shorter on either side.
DateChoices(dmin, dmax) ==
    {<<dmin>>, <<dmin, dmax>>, <<dmin + 1, dmax>>, <<dmin, dmax - 1>>}

\* right.text_input: empty by default.
TextChoices == {"", "Unit 1", "nan"}

(***************************************************************************)
(* Uploaded files.                                                         *)
(***************************************************************************)
Row(month, tf, type, pathways) ==
    [c \in Range(Columns) |->
        CASE c = "Month" -> month
          [] c = "TF Name" -> tf
          [] c = "Type" -> type
          [] OTHER -> pathways]

File(rows) == [isNone |-> FALSE, columns |-> Columns, rows |-> rows]

Label(str) == Text(str, NoDate)

\* Small files: every sequence of at most MaxRows rows over SmallRows; the
\* month labels are not dates to the parser.
SmallRows ==
    {Row(Label("Jan"), Label("North"), Label("Clock Starts"), Num(5)),
     Row(Label("Jan"), Label("North"), Label("Clock Starts"), Num(3)),
     Row(Label("Feb"), Label("South"), Label("Clock Starts"), Num(2)),
     Row(Label("Feb"), Label("North"), Label("Clock Stops"), Num(3)),
     Row(Missing, Label("South"), Label("Clock Starts"), Num(3)),
     Row(Label("Jan"), Label("South"), Label("Admitted Clock Stops"), Missing)}

SmallFiles == {File(r) : r \in UNION {[1..n -> SmallRows] : n \in 0..MaxRows}}

\* The aggregation example: (Jan, 5), (Jan, 3), (Feb, 2), all Clock Starts.
ExampleFile ==
    File(<<Row(Label("Jan"), Label("North"), Label("Clock Starts"), Num(5)),
           Row(Label("Jan"), Label("North"), Label("Clock Starts"), Num(3)),
           Row(Label("Feb"), Label("South"), Label("Clock Starts"), Num(2))>>)

\* Timestamps count ticks from 1 January 2025, TicksPerDay ticks a day.
DaysBefore == <<0, 31, 59, 90, 120, 151, 181, 212, 243, 273, 304, 334, 365>>
Pad2(x) == IF x < 10 THEN "0" \o ToString(x) ELSE ToString(x)
IsoText(t) ==
    LET d == t \div TicksPerDay
        m == CHOOSE m \in 1..12 : DaysBefore[m] <= d /\ d < DaysBefore[m + 1]
        h == ((t % TicksPerDay) * 24) \div TicksPerDay
    IN "2025-" \o Pad2(m) \o "-" \o Pad2(d - DaysBefore[m] + 1)
        \o (IF t % TicksPerDay = 0 THEN "" ELSE " " \o Pad2(h) \o ":00")
Stamp(t) == Text(IsoText(t), t)

\* Small files whose Month column is written as dates.
DatedRows ==
    {Row(Stamp(Midnight(31)), Label("North"), Label("Clock Starts"), Num(2)),
     Row(Stamp(Midnight(0) + 1), Label("South"), Label("Clock Stops"), Num(3))}

DatedFiles == {File(r) : r \in UNION {[1..n -> DatedRows] : n \in 1..MaxRows}}

\* Large files, of Threshold + Extra rows: row i holds value number
\* (i - 1) % nd in Month (a date), TF Name (a text) and Pathways (a number),
\* so each of these columns has nd distinct values.  With hole the first
\* row is empty in these three columns; late puts the last day's row at a
\* later hour.
BigLen == Threshold + Extra

BigFile(nd, hole, late) ==
    File([i \in 1..BigLen |->
        LET v == (i - 1) % nd IN
        [c \in Range(Columns) |->
            CASE c = "Type" ->
                    Label(IF v % 2 = 0 THEN "Clock Starts" ELSE "Clock Stops")
              [] c # "Type" /\ i = 1 /\ hole -> Missing
              [] c = "Month" /\ ~(i = 1 /\ hole) ->
                    Stamp(Midnight(v) + (IF late /\ v = nd - 1 THEN 1 ELSE 0))
              [] c = "TF Name" /\ ~(i = 1 /\ hole) -> Label("Unit " \o ToString(v))
              [] OTHER -> Num(10 * v)]])

BigFiles ==
    {BigFile(nd, hole, late) :
        nd \in {Threshold - 1, Threshold, BigLen}, hole \in BOOLEAN, late \in BOOLEAN}

Init ==
    /\ pc = "start"
    /\ uploaded_file \in SmallFiles \cup {ExampleFile} \cup DatedFiles \cup BigFiles
                            \cup {NoFile}
    /\ data = None
    /\ warnings = <<>>
    /\ calls = <<>>
    /\ modify = FALSE
    /\ df = None
    /\ to_filter_columns = <<>>
    /\ applied = <<>>
    /\ slider = <<>>
    /\ filtered_data = None
    /\ selected_metric = ""
    /\ fig = <<>>
    /\ tf_options = <<>>
    /\ selected_tf = Missing
    /\ trajectory_df = <<>>
    /\ csv = <<>>

\* Mutant of LoadData: the else branch returns None without the warning.
LoadDataSilent ==
    /\ pc = "start"
    /\ calls' = Append(calls, <<"load_data", None>>)
    /\ IF ~uploaded_file.isNone
       THEN /\ data' = RenameType(ReadCsv(uploaded_file))
            /\ pc' = "visualize_data"
       ELSE /\ data' = None
            /\ pc' = "done"
    /\ UNCHANGED <<uploaded_file, warnings, modify, df, to_filter_columns, applied,
                   slider, filtered_data, selected_metric, fig, tf_options,
                   selected_tf, trajectory_df, csv>>

(***************************************************************************)
(* main: data = load_data().                                               *)
(***************************************************************************)
LoadData ==
    /\ pc = "start"
    /\ calls' = Append(calls, <<"load_data", None>>)
    /\ IF ~uploaded_file.isNone
       THEN /\ data' = RenameType(ReadCsv(uploaded_file))
            /\ warnings' = warnings
            /\ pc' = "visualize_data"
       ELSE /\ data' = None
            /\ warnings' = Append(warnings, "Please upload a dataset to proceed.")
            /\ pc' = "done"
    /\ UNCHANGED <<uploaded_file, modify, df, to_filter_columns, applied, slider,
                   filtered_data, selected_metric, fig, tf_options, selected_tf,
                   trajectory_df, csv>>

(***************************************************************************)
(* main: visualize_data(data), up to the return of filter_dataframe.       *)
(***************************************************************************)
\* visualize_data is entered and filter_dataframe reads the checkbox: it
\* returns df as it is, or copies it and converts its date columns.
FilterCheckbox ==
    /\ pc = "visualize_data"
    /\ ~data.isNone
    /\ calls' = Append(calls, <<"visualize_data", data>>)
    /\ \E m \in BOOLEAN :
        /\ modify' = m
        /\ IF ~m
           THEN /\ filtered_data' = data
                /\ df' = data
                /\ pc' = "metric"
           ELSE /\ df' = ConvertDatetimes(data)
                /\ filtered_data' = filtered_data
                /\ pc' = "columns"
    /\ UNCHANGED <<uploaded_file, data, warnings, to_filter_columns, applied, slider,
                   selected_metric, fig, tf_options, selected_tf, trajectory_df, csv>>

ChooseColumns ==
    /\ pc = "columns"
    /\ \E sel \in Selections(df.columns) : to_filter_columns' = sel
    /\ pc' = "loop"
    /\ UNCHANGED <<uploaded_file, data, warnings, calls, modify, df, applied, slider,
                   filtered_data, selected_metric, fig, tf_options, selected_tf,
                   trajectory_df, csv>>

\* One pass of `for column in to_filter_columns`.
FilterColumn ==
    /\ pc = "loop"
    /\ to_filter_columns # <<>>
    /\ LET column == Head(to_filter_columns)
           cells == Column(df, column)
           branch == Dispatch(df, column)
           nums == {cells[i].n : i \in {j \in 1..Len(cells) : ~IsMissing(cells[j])}}
       IN
       /\ to_filter_columns' = Tail(to_filter_columns)
       /\ CASE branch = "categorical" ->
                 \E user_cat_input \in CatChoices(Unique(cells)) :
                    LET con == [NoConstraint(df, column) EXCEPT
                                    !.active = TRUE, !.values = user_cat_input,
                                    !.default = (user_cat_input = Range(Unique(cells)))]
                    IN /\ df' = ApplyConstraint(df, con)
                       /\ applied' = Append(applied, con)
                       /\ UNCHANGED <<slider, pc>>
            [] branch = "numeric" ->
                 \* min() and max() of a column without values are NaN, and
                 \* so is step: held as 0, st.slider raises on them as well
                 LET _min == IF nums = {} THEN 0 ELSE Min(nums)
                     _max == IF nums = {} THEN 0 ELSE Max(nums)
                 IN /\ slider' = Append(slider, [min |-> _min, max |-> _max,
                                                 step |-> _max - _min])
                    /\ IF _max - _min = 0
                       THEN \* st.slider raises on a step of 0
                            /\ pc' = "error"
                            /\ UNCHANGED <<df, applied>>
                       ELSE \E user_num_input \in SliderChoices :
                            LET con == [NoConstraint(df, column) EXCEPT
                                    !.active = TRUE,
                                    !.lo = SliderSteps * _min + user_num_input[1] * (_max - _min),
                                    !.hi = SliderSteps * _min + user_num_input[2] * (_max - _min),
                                    !.default = (user_num_input = <<0, SliderSteps>>)]
                            IN /\ df' = ApplyConstraint(df, con)
                               /\ applied' = Append(applied, con)
                               /\ pc' = pc
            [] branch = "date" ->
                 \E user_date_input \in DateChoices(DateOf(Min(nums)), DateOf(Max(nums))) :
                    LET con == IF Len(user_date_input) = 2
                               THEN [NoConstraint(df, column) EXCEPT
                                        !.active = TRUE,
                                        !.lo = Midnight(user_date_input[1]),
                                        !.hi = Midnight(user_date_input[2]),
                                        !.default = (user_date_input =
                                            <<DateOf(Min(nums)), DateOf(Max(nums))>>)]
                               ELSE [NoConstraint(df, column) EXCEPT !.default = FALSE]
                    IN /\ df' = ApplyConstraint(df, con)
                       /\ applied' = Append(applied, con)
                       /\ UNCHANGED <<slider, pc>>
            [] OTHER ->
                 \E user_text_input \in TextChoices :
                    LET con == IF user_text_input # ""
                               THEN [NoConstraint(df, column) EXCEPT
                                        !.active = TRUE, !.text = user_text_input,
                                        !.default = FALSE]
                               ELSE NoConstraint(df, column)
                    IN /\ df' = ApplyConstraint(df, con)
                       /\ applied' = Append(applied, con)
                       /\ UNCHANGED <<slider, pc>>
    /\ UNCHANGED <<uploaded_file, data, warnings, calls, modify, filtered_data,
                   selected_metric, fig, tf_options, selected_tf, trajectory_df, csv>>

\* The loop is over: filter_dataframe returns df to visualize_data.
FilterReturn ==
    /\ pc = "loop"
    /\ to_filter_columns = <<>>
    /\ filtered_data' = df
    /\ pc' = "metric"
    /\ UNCHANGED <<uploaded_file, data, warnings, calls, modify, df, to_filter_columns,
                   applied, slider, selected_metric, fig, tf_options, selected_tf,
                   trajectory_df, csv>>

(***************************************************************************)
(* visualize_data: the metric select box, the split checkbox, the figure.  *)
(***************************************************************************)
metrics == <<"Non-Admitted Clock Stops", "Admitted Clock Stops", "Incomplete Pathways",
             "Incomplete Admitted Pathways", "Clock Starts">>

\* Python's order of str: by code point, a proper prefix first.  Ascii lists
\* the characters of the texts used here in code-point order.
Ascii == " -0123456789:ABCDEFGHIJKLMNOPQRSTUVWXYZabcdefghijklmnopqrstuvwxyz"
Code(ch) == CHOOSE i \in 1..Len(Ascii) : SubSeq(Ascii, i, i) = ch

RECURSIVE StrLess(_, _)
StrLess(a, b) ==
    IF b = "" THEN FALSE
    ELSE IF a = "" THEN TRUE
    ELSE IF Head(a) = Head(b) THEN StrLess(Tail(a), Tail(b))
    ELSE Code(Head(a)) < Code(Head(b))

\* The order groupby sorts its keys by: texts as str, numbers and
\* timestamps by value.
CellLess(a, b) == IF a.k = "txt" THEN StrLess(a.s, b.s) ELSE a.n < b.n

\* filtered_data[filtered_data['Type'] == selected_metric]
MetricRows(t, metric) ==
    BoolIndex(t, [i \in 1..Len(t.rows) |->
                    t.rows[i].c["Type"].k = "txt" /\ t.rows[i].c["Type"].s = metric])

\* Series.sum(): NaN is skipped, an empty sum is 0.
RECURSIVE Sum(_)
Sum(cells) ==
    IF cells = <<>> THEN 0
    ELSE (IF Head(cells).k = "num" THEN Head(cells).n ELSE 0) + Sum(Tail(cells))

\* Mutant of GroupbySum: groupby(sort=False), the groups in order of first
\* appearance.
GroupbySumUnsorted(t) ==
    LET keys == SelectSeq(Unique(Column(t, "Month")), LAMBDA c : ~IsMissing(c))
    IN [j \in 1..Len(keys) |->
            <<keys[j],
              Sum(Column([rows |-> SelectSeq(t.rows, LAMBDA r : r.c["Month"] = keys[j])],
                         "Pathways"))>>]

\* groupby('Month', as_index=False)['Pathways'].sum(), with groupby's
\* defaults sort=True and dropna=True: one (Month, sum) row per Month that is
\* not NaN, the Months in ascending order.
GroupbySum(t) ==
    LET keys == SortSeq(SelectSeq(Unique(Column(t, "Month")), LAMBDA c : ~IsMissing(c)),
                        CellLess)
        group(key) == SelectSeq(t.rows, LAMBDA r : r.c["Month"] = key)
    IN [j \in 1..Len(keys) |->
            <<keys[j], Sum(Column([rows |-> group(keys[j])], "Pathways"))>>]

\* The metrics the user picks here: the default one and the last one.
MetricChoices == {metrics[1], metrics[Len(metrics)]}

Aggregate ==
    /\ pc = "metric"
    /\ \E metric \in MetricChoices, split_by_tf \in BOOLEAN :
        /\ selected_metric' = metric
        /\ fig' = IF split_by_tf
                  THEN [px |-> "bar", data_frame |-> MetricRows(filtered_data, metric).rows]
                  ELSE [px |-> "line",
                        data_frame |-> GroupbySum(MetricRows(filtered_data, metric))]
    /\ pc' = "plotted"
    /\ UNCHANGED <<uploaded_file, data, warnings, calls, modify, df, to_filter_columns,
                   applied, slider, filtered_data, tf_options, selected_tf,
                   trajectory_df, csv>>

\* st.plotly_chart(fig) is done: visualize_data returns and its locals are gone.
VisualizeReturn ==
    /\ pc = "plotted"
    /\ modify' = FALSE
    /\ df' = None
    /\ to_filter_columns' = <<>>
    /\ applied' = <<>>
    /\ slider' = <<>>
    /\ filtered_data' = None
    /\ selected_metric' = ""
    /\ fig' = <<>>
    /\ pc' = "set_trajectories"
    /\ UNCHANGED <<uploaded_file, data, warnings, calls, tf_options, selected_tf,
                   trajectory_df, csv>>

(***************************************************************************)
(* main: set_trajectories(data).                                           *)
(***************************************************************************)
MonthNames == <<"January", "February", "March", "April", "May", "June", "July",
                "August", "September", "October", "November", "December">>

\* Mutant of DateRangeMS: the end month left out.
RECURSIVE DateRangeMSExclusive(_, _, _, _)
DateRangeMSExclusive(y, m, yEnd, mEnd) ==
    IF y > yEnd \/ (y = yEnd /\ m >= mEnd) THEN <<>>
    ELSE <<<<y, m>>>> \o (IF m = 12 THEN DateRangeMSExclusive(y + 1, 1, yEnd, mEnd)
                          ELSE DateRangeMSExclusive(y, m + 1, yEnd, mEnd))

\* pd.date_range(start, end, freq='MS'): the first of every month from the
\* start month to the end month, both included, as <<year, month>>.
RECURSIVE DateRangeMS(_, _, _, _)
DateRangeMS(y, m, yEnd, mEnd) ==
    IF y > yEnd \/ (y = yEnd /\ m > mEnd) THEN <<>>
    ELSE <<<<y, m>>>> \o (IF m = 12 THEN DateRangeMS(y + 1, 1, yEnd, mEnd)
                          ELSE DateRangeMS(y, m + 1, yEnd, mEnd))

\* strftime("%B %Y")
Strftime(ym) == MonthNames[ym[2]] \o " " \o ToString(ym[1])

months == [i \in 1..Len(DateRangeMS(StartYear, StartMonth, EndYear, EndMonth)) |->
              Strftime(DateRangeMS(StartYear, StartMonth, EndYear, EndMonth)[i])]

\* trajectory[month] = value on a dict, which keeps insertion order.
DictSet(items, key, value) ==
    IF \E i \in 1..Len(items) : items[i][1] = key
    THEN [i \in 1..Len(items) |-> IF items[i][1] = key THEN <<key, value>> ELSE items[i]]
    ELSE Append(items, <<key, value>>)

\* The loop `for month in months`, given the value of every number input.
RECURSIVE Trajectory(_, _)
Trajectory(n, input) ==
    IF n = 0 THEN <<>>
    ELSE DictSet(Trajectory(n - 1, input), months[n], input[n])

\* DataFrame.to_csv(index=False): the header, then one line per row.
ToCsv(columns, rows) ==
    <<columns[1] \o "," \o columns[2]>>
    \o [i \in 1..Len(rows) |-> rows[i][1] \o "," \o ToString(rows[i][2])]

\* st.number_input(min_value=0, value=0, step=1) per month: all left at 0,
\* or one month set to a value up to MaxTrajectory.
TrajectoryInputs ==
    {[i \in 1..Len(months) |-> 0]}
    \cup {[i \in 1..Len(months) |-> IF i = j THEN v ELSE 0] :
            j \in 1..Len(months), v \in 1..MaxTrajectory}

SetTrajectories ==
    /\ pc = "set_trajectories"
    /\ calls' = Append(calls, <<"set_trajectories", data>>)
    /\ LET options == <<Label("Total")>> \o Unique(Column(data, "TF Name"))
       IN /\ tf_options' = options
          /\ \E i \in 1..(IF Len(options) < 2 THEN Len(options) ELSE 2) :
                selected_tf' = options[i]
    /\ \E input \in TrajectoryInputs :
        /\ trajectory_df' = [columns |-> <<"Month", "Pathways">>,
                             rows |-> Trajectory(Len(months), input)]
        /\ csv' = ToCsv(<<"Month", "Pathways">>, Trajectory(Len(months), input))
    /\ pc' = "done"
    /\ UNCHANGED <<uploaded_file, data, warnings, modify, df, to_filter_columns,
                   applied, slider, filtered_data, selected_metric, fig>>

Next ==
    \/ LoadData
    \/ FilterCheckbox
    \/ ChooseColumns
    \/ FilterColumn
    \/ FilterReturn
    \/ Aggregate
    \/ VisualizeReturn
    \/ SetTrajectories

Spec == Init /\ [][Next]_vars

(***************************************************************************)
(* Properties.                                                             *)
(***************************************************************************)
Last(seq) == seq[Len(seq)]

\* C1, as stated: when filter_dataframe has returned, the filtered table has
\* the columns of the table it was given, each of its rows is a row of that
\* table, and it has no more rows.
C1_RowSubset ==
    pc = "metric" =>
        /\ filtered_data.columns = data.columns
        /\ \A i \in 1..Len(filtered_data.rows) : filtered_data.rows[i] \in Range(data.rows)
        /\ Len(filtered_data.rows) <= Len(data.rows)

\* A text column is converted when "Add filters" is ticked and none of its
\* texts is rejected by the date parser.
C1_Converted(col) ==
    /\ modify
    /\ data.dtype[col] = "object"
    /\ \A i \in 1..Len(data.rows) :
          data.rows[i].c[col].k = "txt" => data.rows[i].c[col].n # NoDate

\* C1, amended: the filtered table has the columns of the table it was given
\* and no more rows; its rows are rows of that table, in their order and
\* under their index labels, except that in a converted text column each
\* text is replaced by the timestamp it parses to.
C1_RowSubsetUpToDates ==
    pc = "metric" =>
        /\ filtered_data.columns = data.columns
        /\ Len(filtered_data.rows) <= Len(data.rows)
        /\ \A i \in 1..Len(filtered_data.rows) :
              LET r == filtered_data.rows[i] IN
              /\ r.idx + 1 \in 1..Len(data.rows)
              /\ \A col \in Range(data.columns) :
                    LET u == data.rows[r.idx + 1].c[col] IN
                    r.c[col] = IF C1_Converted(col) /\ u.k = "txt" THEN Date(u.n) ELSE u
        /\ \A i \in 1..Len(filtered_data.rows), j \in 1..Len(filtered_data.rows) :
              i < j => filtered_data.rows[i].idx < filtered_data.rows[j].idx
        /\ (~modify => filtered_data = data)

\* C1, witness: filters are on, a column was converted to timestamps, and
\* some but not all rows were filtered away.
C1_Witness ==
    /\ pc = "metric"
    /\ modify
    /\ \E col \in Range(data.columns) : C1_Converted(col)
    /\ Len(filtered_data.rows) > 0
    /\ Len(filtered_data.rows) < Len(data.rows)

\* The rows of the selected metric, their Months that are not missing in
\* order of first appearance, and the sum of Pathways of one Month.
C2_Rows ==
    SelectSeq(filtered_data.rows,
              LAMBDA r : r.c["Type"].k = "txt" /\ r.c["Type"].s = selected_metric)
C2_Months(rows) ==
    SelectSeq(Unique([i \in 1..Len(rows) |-> rows[i].c["Month"]]), LAMBDA c : c.k # "nan")
C2_Total(rows, month) ==
    LET group == SelectSeq(rows, LAMBDA r : r.c["Month"] = month)
    IN Sum([i \in 1..Len(group) |-> group[i].c["Pathways"]])

ExpectedMonths ==
    <<"April 2025", "May 2025", "June 2025", "July 2025", "August 2025",
      "September 2025", "October 2025", "November 2025", "December 2025",
      "January 2026", "February 2026", "March 2026">>

\* C3: once set_trajectories has run, the trajectory table has the columns
\* Month, Pathways and exactly 12 rows, labelled April 2025 to March 2026 in
\* calendar order, each with a natural number; the CSV is the header
\* Month,Pathways and these 12 rows.
C3_TwelveMonths ==
    (pc = "done" /\ ~data.isNone) =>
        /\ trajectory_df.columns = <<"Month", "Pathways">>
        /\ Len(trajectory_df.rows) = 12
        /\ [i \in 1..Len(trajectory_df.rows) |-> trajectory_df.rows[i][1]] = ExpectedMonths
        /\ \A i \in 1..Len(trajectory_df.rows) : trajectory_df.rows[i][2] \in Nat
        /\ Len(csv) = 13
        /\ csv[1] = "Month,Pathways"
        /\ \A i \in 1..12 :
              csv[i + 1] = ExpectedMonths[i] \o "," \o ToString(trajectory_df.rows[i][2])

\* C3, witness: set_trajectories has run with a TF Name other than Total
\* selected and a month set above 0.
C3_Witness ==
    /\ pc = "done"
    /\ ~data.isNone
    /\ selected_tf # Label("Total")
    /\ \E i \in 1..Len(trajectory_df.rows) : trajectory_df.rows[i][2] > 0

\* The constraints of a run of the loop, applied in order.
RECURSIVE ApplyAll(_, _)
ApplyAll(t, cons) ==
    IF cons = <<>> THEN t ELSE ApplyAll(ApplyConstraint(t, Head(cons)), Tail(cons))

\* C4: applying the constraints of a filtering again, to the table it
\* returned, gives that table.
C4_Idempotent ==
    (pc = "metric" /\ modify) => ApplyAll(filtered_data, applied) = filtered_data

\* C4, witness: two columns were filtered, each with a changed widget, and
\* some but not all rows remain.
C4_Witness ==
    /\ pc = "metric"
    /\ modify
    /\ Len(applied) = 2
    /\ \A i \in 1..2 : applied[i].active /\ ~applied[i].default
    /\ Len(filtered_data.rows) > 0
    /\ Len(filtered_data.rows) < Len(data.rows)

C6_Rename ==
    ~data.isNone =>
        /\ data.columns = uploaded_file.columns
        /\ Len(data.rows) = Len(uploaded_file.rows)
        /\ \A i \in 1..Len(data.rows) :
              /\ data.rows[i].idx = i - 1
              /\ \A col \in Range(data.columns) :
                    LET f == uploaded_file.rows[i][col]
                        d == data.rows[i].c[col]
                    IN IF col = "Type" /\ f = Label("Clock Stops")
                       THEN d = Label("Non-Admitted Clock Stops")
                       ELSE d = f
              /\ data.rows[i].c["Type"].s # "Clock Stops"

\* C6, witness: a file with a Clock Stops row and an Admitted Clock Stops
\* row has been loaded.
C6_Witness ==
    /\ ~data.isNone
    /\ \E i \in 1..Len(uploaded_file.rows), j \in 1..Len(uploaded_file.rows) :
          /\ uploaded_file.rows[i]["Type"] = Label("Clock Stops")
          /\ uploaded_file.rows[j]["Type"] = Label("Admitted Clock Stops")

\* The example of C7: a Pathways column of 10, 20, 30, 40 under the numeric
\* constraint (20, 30) keeps 20 and 30.
C7_Example ==
    LET t == [isNone |-> FALSE, columns |-> Columns,
              dtype |-> [c \in Range(Columns) |-> IF c = "Pathways" THEN "number" ELSE "object"],
              rows |-> [i \in 1..4 |->
                  [idx |-> i - 1,
                   c |-> Row(Label("Jan"), Label("North"), Label("Clock Starts"), Num(10 * i))]]]
        con == [column |-> "Pathways", branch |-> "numeric", active |-> TRUE,
                values |-> {}, lo |-> SliderSteps * 20, hi |-> SliderSteps * 30,
                text |-> "", dtype |-> "number", nunique |-> 4, default |-> FALSE]
    IN Column(ApplyConstraint(t, con), "Pathways") = <<Num(20), Num(30)>>

\* C7: a pass of the loop that takes the numeric branch with the slider at
\* (lo, hi) leaves in df exactly the rows whose value v has lo <= v <= hi
\* (lo and hi are held multiplied by SliderSteps).
C7_NumericInclusive ==
    [][/\ C7_Example
       /\ (Len(applied') = Len(applied) + 1 /\ Last(applied').branch = "numeric") =>
            LET con == Last(applied')
            IN df'.rows = SelectSeq(df.rows,
                    LAMBDA r : /\ r.c[con.column].k = "num"
                               /\ con.lo <= SliderSteps * r.c[con.column].n
                               /\ SliderSteps * r.c[con.column].n <= con.hi)]_vars

\* C7, witness: the numeric branch has just run with the lower handle moved
\* up onto a value of the column: that row is kept, lower rows are gone.
C7_Witness ==
    /\ pc = "loop"
    /\ applied # <<>>
    /\ Last(applied).branch = "numeric"
    /\ Last(applied).lo > SliderSteps * Last(slider).min
    /\ Last(applied).hi < SliderSteps * Last(slider).max
    /\ \E i \in 1..Len(df.rows) :
          SliderSteps * df.rows[i].c[Last(applied).column].n = Last(applied).lo
    /\ \E i \in 1..Len(df.rows) :
          SliderSteps * df.rows[i].c[Last(applied).column].n = Last(applied).hi

\* C8: no slider is ever created with _min = _max (a step of 0), the render
\* never ends in st.slider's error, and a column of at most one distinct
\* value takes the categorical branch.
C8_NoZeroStep ==
    /\ pc # "error"
    /\ \A i \in 1..Len(slider) : slider[i].min < slider[i].max /\ slider[i].step # 0
    /\ \A i \in 1..Len(applied) : applied[i].nunique <= 1 => applied[i].branch = "categorical"

\* C8, witness: a numeric column with a single distinct value (its minimum
\* is its maximum) has been filtered.
C8_Witness ==
    /\ pc = "loop"
    /\ \E i \in 1..Len(applied) :
          /\ applied[i].dtype = "number"
          /\ applied[i].nunique = 1
          /\ applied[i].active

\* C9: without a file, load_data warns once and returns None, and main
\* calls nothing else; with a file there is no warning, and set_trajectories
\* is called only after visualize_data, with the same table, the loaded one.
C9_MainOrder ==
    /\ (uploaded_file.isNone /\ pc # "start") =>
          /\ warnings = <<"Please upload a dataset to proceed.">>
          /\ data.isNone
          /\ pc = "done"
          /\ [i \in 1..Len(calls) |-> calls[i][1]] = <<"load_data">>
    /\ ~uploaded_file.isNone =>
          /\ warnings = <<>>
          /\ pc # "start" => ~data.isNone
          /\ \A i \in 1..Len(calls) :
                calls[i][1] = "set_trajectories" =>
                    /\ i = 3
                    /\ calls[2][1] = "visualize_data"
                    /\ calls[2][2] = calls[i][2]
                    /\ calls[i][2] = data
          /\ pc = "done" =>
                [i \in 1..Len(calls) |-> calls[i][1]] =
                    <<"load_data", "visualize_data", "set_trajectories">>

\* C9, witness: a render with a file has finished.
C9_Witness ==
    /\ pc = "done"
    /\ ~uploaded_file.isNone
    /\ Len(calls) = 3

\* C10: when every filter widget was left at its default, filter_dataframe
\* returns all rows of the table it was given.
C10_DefaultsKeepAllRows ==
    (pc = "metric" /\ modify /\ \A i \in 1..Len(applied) : applied[i].default) =>
        Len(filtered_data.rows) = Len(data.rows)
====
